---- MODULE Spec2Model ----
(***************************************************************************)
(* Model of utils/analyzer.py: analyze_frame and the helpers it calls.     *)
(*                                                                         *)
(* A frame is represented by what the numeric libraries return for it:     *)
(* its height and width, the HSV means, the Laplacian blur value, the      *)
(* HSV statistics of every non-empty region crop, the eye detections, the  *)
(* texture statistics, the asymmetry score, the bright-pixel ratio and     *)
(* the outcome of the attribute classifier.                                *)
(*                                                                         *)
(* Ratios are scaled by 100 to stay in the integers: edge_density 0.12 is  *)
(* 12, white_pixel_ratio 0.15 is 15.  Python's None is the string "None"   *)
(* and an age is an opaque token (a string), so that the three classifier  *)
(* fields of the report are comparable with the "Unknown" default.         *)
(***************************************************************************)
EXTENDS Integers, Sequences, FiniteSets, TLC

VARIABLES
    frame,          \* the argument of the current call of analyze_frame
    pc,             \* "idle"; "call": invoked, body not run; "return"; "raise"
    region_data,    \* local: result of analyze_skin_regions
    eye_data,       \* local: result of detect_eye_features
    data,           \* local: the dict that analyze_frame returns
    diseases,       \* local: the list of matches
    health_score,   \* local: the running score, before the final max(0, .)
    evaluated,      \* the rule numbers whose condition was evaluated, in order
    returned        \* <<frame, report>> of every call that returned, in order

vars == <<frame, pc, region_data, eye_data, data, diseases, health_score,
          evaluated, returned>>

None == "None"

Max(a, b) == IF a >= b THEN a ELSE b

Min(a, b) == IF a <= b THEN a ELSE b

\* dict.get(key, default)
Get(d, key, default) == IF key \in DOMAIN d THEN d[key] ELSE default

RECURSIVE SumSeq(_)
SumSeq(s) == IF s = <<>> THEN 0 ELSE Head(s) + SumSeq(Tail(s))

(***************************************************************************)
(* analyze_skin_regions: the four crops and the statistics of the          *)
(* non-empty ones.  int(height*0.3) is (height*30) \div 100 for the        *)
(* heights and widths used here.                                           *)
(***************************************************************************)
RegionNames == {"forehead", "cheeks", "chin", "under_eyes"}

\* rows and columns [from, to) of each crop
Crop(name, height, width) ==
    CASE name = "forehead" ->
            [r0 |-> (height * 10) \div 100, r1 |-> (height * 30) \div 100,
             c0 |-> (width * 30) \div 100,  c1 |-> (width * 70) \div 100]
      [] name = "cheeks" ->
            [r0 |-> (height * 30) \div 100, r1 |-> (height * 60) \div 100,
             c0 |-> 0,                      c1 |-> width]
      [] name = "chin" ->
            [r0 |-> (height * 60) \div 100, r1 |-> (height * 90) \div 100,
             c0 |-> (width * 30) \div 100,  c1 |-> (width * 70) \div 100]
      [] name = "under_eyes" ->
            [r0 |-> (height * 25) \div 100, r1 |-> (height * 40) \div 100,
             c0 |-> (width * 20) \div 100,  c1 |-> (width * 80) \div 100]

\* roi.size of a crop: rows * columns (times the channel count)
RoiSize(name, height, width) ==
    LET c == Crop(name, height, width)
    IN  Max(0, c.r1 - c.r0) * Max(0, c.c1 - c.c0) * 3

NonEmptyRegions(height, width) ==
    {name \in RegionNames : RoiSize(name, height, width) > 0}

analyze_skin_regions(fr) ==
    [name \in NonEmptyRegions(fr.height, fr.width) |-> fr.pixels[name]]

(***************************************************************************)
(* detect_eye_features: the flags start False; every detected eye with a   *)
(* non-empty under-eye crop may set dark_circles and redness.              *)
(***************************************************************************)
EyeDataInit == [dark_circles |-> FALSE, puffiness |-> FALSE, redness |-> FALSE]

\* EyeStep with a puffiness test added: a bright under-eye crop counts as puffy
EyeStepPuffy(eye_d, eye) ==
    IF eye.under_eye_size > 0
    THEN [eye_d EXCEPT
            !.dark_circles = IF eye.avg_brightness < 80 THEN TRUE ELSE @,
            !.puffiness    = IF eye.avg_brightness > 100 THEN TRUE ELSE @,
            !.redness      = IF eye.mean_r > eye.mean_g + 20 THEN TRUE ELSE @]
    ELSE eye_d

EyeStep(eye_d, eye) ==
    IF eye.under_eye_size > 0
    THEN [eye_d EXCEPT
            !.dark_circles = IF eye.avg_brightness < 80 THEN TRUE ELSE @,
            !.redness      = IF eye.mean_r > eye.mean_g + 20 THEN TRUE ELSE @]
    ELSE eye_d

RECURSIVE EyeLoop(_, _)
EyeLoop(eye_d, eyes) ==
    IF eyes = <<>> THEN eye_d
    ELSE EyeLoop(EyeStep(eye_d, Head(eyes)), Tail(eyes))

detect_eye_features(fr) == EyeLoop(EyeDataInit, fr.eyes)

(***************************************************************************)
(* The classifier block of analyze_frame: the three fields start None; on  *)
(* success each is results[0].get(key, "Unknown"); any exception (the      *)
(* classifier raising, or results[0] of an empty list) is swallowed and    *)
(* leaves the fields as they are.                                          *)
(***************************************************************************)
\* DataInit with the recommendations list shared between calls
DataInitShared ==
    [emotion |-> None, race |-> None, age |-> None, diseases |-> <<>>,
     health_score |-> 100, recommendations |-> data.recommendations]

DataInit ==
    [emotion |-> None, race |-> None, age |-> None, diseases |-> <<>>,
     health_score |-> 100, recommendations |-> <<>>]

ClassifierFails(fr) == fr.deepface.raises \/ fr.deepface.results = <<>>

Classify(d, fr) ==
    IF ClassifierFails(fr) THEN d
    ELSE LET r == fr.deepface.results[1]
         IN  [d EXCEPT !.emotion = Get(r, "dominant_emotion", "Unknown"),
                       !.race    = Get(r, "dominant_race", "Unknown"),
                       !.age     = Get(r, "age", "Unknown")]

(***************************************************************************)
(* The feature values the 25 conditions read.                              *)
(***************************************************************************)
Features(fr, regions, eye_d, emotion) ==
    [avg_hue |-> fr.hsv.h, avg_sat |-> fr.hsv.s, avg_val |-> fr.hsv.v,
     blur_val |-> fr.blur, region_data |-> regions, eye_data |-> eye_d,
     texture_data |-> fr.texture, asymmetry |-> fr.asymmetry,
     white_pixel_ratio |-> fr.white_pixel_ratio, emotion |-> emotion]

(***************************************************************************)
(* The 25 rules of analyze_frame, in source order: what a match appends    *)
(* to diseases, what it takes off health_score and what it appends to      *)
(* data["recommendations"].                                                *)
(***************************************************************************)
Rules == <<
    [name |-> "Jaundice (Liver Issue)",
     confidence |-> "High",
     description |-> "Yellowish skin tone detected",
     delta |-> 30,
     recommendation |-> "Consult a hepatologist immediately"],
    [name |-> "Anemia",
     confidence |-> "Medium",
     description |-> "Pale complexion indicates possible iron deficiency",
     delta |-> 20,
     recommendation |-> "Check hemoglobin levels; increase iron intake"],
    [name |-> "Cyanosis",
     confidence |-> "High",
     description |-> "Bluish tint suggests low blood oxygen",
     delta |-> 35,
     recommendation |-> "Seek immediate medical attention - possible respiratory/cardiac issue"],
    [name |-> "Rosacea / Skin Inflammation",
     confidence |-> "Medium",
     description |-> "Persistent facial redness detected",
     delta |-> 15,
     recommendation |-> "Avoid triggers like alcohol, spicy foods; consult dermatologist"],
    [name |-> "Vitiligo",
     confidence |-> "Medium",
     description |-> "White/depigmented patches detected on skin",
     delta |-> 10,
     recommendation |-> "Consult dermatologist for vitiligo treatment options"],
    [name |-> "Acne / Skin Lesions",
     confidence |-> "Medium",
     description |-> "Multiple blemishes or spots detected",
     delta |-> 12,
     recommendation |-> "Maintain skincare routine; consider topical treatments"],
    [name |-> "Eczema / Dermatitis",
     confidence |-> "Low",
     description |-> "Dry, rough skin texture",
     delta |-> 15,
     recommendation |-> "Use moisturizers; avoid irritants; see dermatologist"],
    [name |-> "Melasma / Hyperpigmentation",
     confidence |-> "Low",
     description |-> "Dark patches on forehead region",
     delta |-> 8,
     recommendation |-> "Use sunscreen; consider skin-lightening treatments"],
    [name |-> "Dehydration",
     confidence |-> "Medium",
     description |-> "Dull, tired-looking skin",
     delta |-> 10,
     recommendation |-> "Increase water intake to 8+ glasses daily"],
    [name |-> "Sleep Deprivation / Chronic Fatigue",
     confidence |-> "Medium",
     description |-> "Dark circles and dull complexion",
     delta |-> 15,
     recommendation |-> "Improve sleep quality; aim for 7-9 hours nightly"],
    [name |-> "Allergic Reaction",
     confidence |-> "Medium",
     description |-> "Redness and possible swelling detected",
     delta |-> 18,
     recommendation |-> "Identify and avoid allergens; antihistamines may help"],
    [name |-> "Hypothyroidism (Possible)",
     confidence |-> "Low",
     description |-> "Pale, puffy face may indicate thyroid issues",
     delta |-> 20,
     recommendation |-> "Get thyroid function tests (TSH, T3, T4)"],
    [name |-> "Lupus (Butterfly Rash Indicator)",
     confidence |-> "Very Low",
     description |-> "Symmetrical redness across cheeks",
     delta |-> 25,
     recommendation |-> "Consult rheumatologist for autoimmune screening"],
    [name |-> "Cushing's Syndrome (Moon Face)",
     confidence |-> "Very Low",
     description |-> "Round, full facial appearance",
     delta |-> 22,
     recommendation |-> "Consult endocrinologist for cortisol level testing"],
    [name |-> "Seborrheic Dermatitis",
     confidence |-> "Low",
     description |-> "Flaky, oily patches on skin",
     delta |-> 12,
     recommendation |-> "Use antifungal shampoos; maintain scalp hygiene"],
    [name |-> "Psoriasis",
     confidence |-> "Low",
     description |-> "Rough, scaly skin patches",
     delta |-> 18,
     recommendation |-> "Consult dermatologist for biologics or topical treatments"],
    [name |-> "Advanced Liver Disease",
     confidence |-> "Medium",
     description |-> "Dark yellowish tone with dullness",
     delta |-> 40,
     recommendation |-> "URGENT: See hepatologist for liver function tests"],
    [name |-> "Kidney Disease (Possible)",
     confidence |-> "Low",
     description |-> "Pale, puffy face with fluid retention",
     delta |-> 25,
     recommendation |-> "Get kidney function tests (creatinine, BUN)"],
    [name |-> "Malnutrition",
     confidence |-> "Medium",
     description |-> "Very pale and dull complexion",
     delta |-> 30,
     recommendation |-> "Improve diet; consider nutritional supplements"],
    [name |-> "Hormonal Acne",
     confidence |-> "Medium",
     description |-> "Breakouts concentrated in lower face",
     delta |-> 15,
     recommendation |-> "Consult endocrinologist; may need hormonal treatment"],
    [name |-> "Chronic Stress / Anxiety",
     confidence |-> "Medium",
     description |-> "Emotional distress visible in facial features",
     delta |-> 18,
     recommendation |-> "Practice stress management; consider counseling"],
    [name |-> "Vitamin D Deficiency",
     confidence |-> "Low",
     description |-> "Very pale skin lacking healthy glow",
     delta |-> 12,
     recommendation |-> "Get sun exposure; vitamin D supplements"],
    [name |-> "Perioral Dermatitis",
     confidence |-> "Low",
     description |-> "Rash around mouth area",
     delta |-> 10,
     recommendation |-> "Avoid steroid creams; see dermatologist"],
    [name |-> "Contact Dermatitis",
     confidence |-> "Low",
     description |-> "Localized redness from irritant/allergen",
     delta |-> 10,
     recommendation |-> "Identify irritant; use hypoallergenic products"],
    [name |-> "Sun Damage / Photoaging",
     confidence |-> "Medium",
     description |-> "Uneven texture and pigmentation from UV exposure",
     delta |-> 15,
     recommendation |-> "Daily SPF 50+; consider retinoids"]
>>

NumRules == Len(Rules)

Healthy ==
    [name |-> "Healthy", confidence |-> "High",
     description |-> "No significant health issues detected"]

HealthyRecommendation == "Maintain current healthy lifestyle"

StressEmotions == {"angry", "fear", "sad"}

\* The conditions of the 25 `if` statements, on the feature values f.
\* Conjunctions are evaluated left to right and stop at the first false
\* conjunct, as `and` does.
Jaundice(f) ==
    20 < f.avg_hue /\ f.avg_hue < 40 /\ f.avg_sat > 80

Anemia(f) ==
    f.avg_sat < 40 /\ f.avg_val > 150

Cyanosis(f) ==
    90 < f.avg_hue /\ f.avg_hue < 130 /\ f.avg_sat > 60

Rosacea(f) ==
    f.avg_hue < 15 /\ f.avg_sat > 100

Vitiligo(f) ==
    f.white_pixel_ratio > 15 /\ f.texture_data.brightness_std > 35
    /\ f.avg_sat < 60

Acne(f) ==
    f.texture_data.edge_density > 12
    /\ f.texture_data.texture_variance > 600

Eczema(f) ==
    f.texture_data.texture_variance > 800 /\ f.avg_sat < 60

Melasma(f) ==
    "forehead" \in DOMAIN f.region_data
    /\ f.region_data["forehead"].mean_v < f.avg_val - 20

\* Dehydration with the comparison of avg_val turned round
DehydrationBright(f) ==
    f.avg_val > 100 /\ f.blur_val < 60

Dehydration(f) ==
    f.avg_val < 100 /\ f.blur_val < 60

SleepDeprivation(f) ==
    f.eye_data.dark_circles /\ f.avg_val < 110

AllergicReaction(f) ==
    f.eye_data.redness /\ f.avg_hue < 20

Hypothyroidism(f) ==
    f.avg_sat < 35 /\ f.avg_val > 160
    /\ Get(f.eye_data, "puffiness", FALSE)

Lupus(f) ==
    "cheeks" \in DOMAIN f.region_data
    /\ f.region_data["cheeks"].mean_h < 15 /\ f.asymmetry < 10

Cushings(f) ==
    f.avg_val > 170 /\ "cheeks" \in DOMAIN f.region_data
    /\ f.region_data["cheeks"].mean_v > 180

SeborrheicDermatitis(f) ==
    f.texture_data.edge_density > 12
    /\ 20 < f.avg_hue /\ f.avg_hue < 35

Psoriasis(f) ==
    f.texture_data.texture_variance > 1200
    /\ f.avg_hue > 15 /\ f.avg_hue < 25

AdvancedLiverDisease(f) ==
    25 < f.avg_hue /\ f.avg_hue < 35 /\ f.avg_sat > 90
    /\ f.avg_val < 120

KidneyDisease(f) ==
    f.avg_val > 180 /\ f.avg_sat < 30
    /\ Get(f.eye_data, "puffiness", FALSE)

Malnutrition(f) ==
    f.avg_sat < 25 /\ f.avg_val < 90 /\ f.blur_val < 50

HormonalAcne(f) ==
    f.texture_data.edge_density > 18
    /\ "chin" \in DOMAIN f.region_data

ChronicStress(f) ==
    f.emotion \in StressEmotions /\ f.avg_val < 105

VitaminDDeficiency(f) ==
    f.avg_val > 165 /\ f.avg_sat < 35

PerioralDermatitis(f) ==
    "chin" \in DOMAIN f.region_data
    /\ f.region_data["chin"].mean_h < 20
    /\ f.texture_data.edge_density > 14

ContactDermatitis(f) ==
    f.asymmetry > 25 /\ f.avg_hue < 15

\* SunDamage with a variance threshold above that of Psoriasis
SunDamageRough(f) ==
    f.texture_data.texture_variance > 1300
    /\ f.avg_hue > 15 /\ f.avg_hue < 25

SunDamage(f) ==
    f.texture_data.texture_variance > 900
    /\ f.avg_hue > 15 /\ f.avg_hue < 25

Cond(i, f) ==
    CASE i = 1 -> Jaundice(f)
      [] i = 2 -> Anemia(f)
      [] i = 3 -> Cyanosis(f)
      [] i = 4 -> Rosacea(f)
      [] i = 5 -> Vitiligo(f)
      [] i = 6 -> Acne(f)
      [] i = 7 -> Eczema(f)
      [] i = 8 -> Melasma(f)
      [] i = 9 -> Dehydration(f)
      [] i = 10 -> SleepDeprivation(f)
      [] i = 11 -> AllergicReaction(f)
      [] i = 12 -> Hypothyroidism(f)
      [] i = 13 -> Lupus(f)
      [] i = 14 -> Cushings(f)
      [] i = 15 -> SeborrheicDermatitis(f)
      [] i = 16 -> Psoriasis(f)
      [] i = 17 -> AdvancedLiverDisease(f)
      [] i = 18 -> KidneyDisease(f)
      [] i = 19 -> Malnutrition(f)
      [] i = 20 -> HormonalAcne(f)
      [] i = 21 -> ChronicStress(f)
      [] i = 22 -> VitaminDDeficiency(f)
      [] i = 23 -> PerioralDermatitis(f)
      [] i = 24 -> ContactDermatitis(f)
      [] i = 25 -> SunDamage(f)

\* Subscripted with the membership tests of region_data left out
SubscriptedUnguarded(i, f) ==
    CASE i = 8  -> {"forehead"}
      [] i = 13 -> {"cheeks"}
      [] i = 14 -> IF f.avg_val > 170 THEN {"cheeks"} ELSE {}
      [] i = 23 -> {"chin"}
      [] OTHER  -> {}

\* The keys with which the i-th condition subscripts region_data on f: a
\* subscript is reached only when the conjuncts to its left are true.
Subscripted(i, f) ==
    CASE i = 8  -> IF "forehead" \in DOMAIN f.region_data
                   THEN {"forehead"} ELSE {}
      [] i = 13 -> IF "cheeks" \in DOMAIN f.region_data
                   THEN {"cheeks"} ELSE {}
      [] i = 14 -> IF f.avg_val > 170 /\ "cheeks" \in DOMAIN f.region_data
                   THEN {"cheeks"} ELSE {}
      [] i = 23 -> IF "chin" \in DOMAIN f.region_data
                   THEN {"chin"} ELSE {}
      [] OTHER  -> {}

\* region_data[key] of an absent key raises KeyError, which nothing catches.
Raises(i, f) == Subscripted(i, f) \ DOMAIN f.region_data # {}

Matches(i, f) == ~Raises(i, f) /\ Cond(i, f)

Match(i) ==
    [name |-> Rules[i].name, confidence |-> Rules[i].confidence,
     description |-> Rules[i].description]

\* RuleStep that appends no recommendation for a match of Low confidence
RuleStepQuiet(i, st, f) ==
    IF Raises(i, f)
    THEN [st EXCEPT !.evaluated = Append(@, i), !.raised = TRUE]
    ELSE IF Cond(i, f)
    THEN [st EXCEPT !.evaluated = Append(@, i),
                    !.diseases = Append(@, Match(i)),
                    !.health_score = @ - Rules[i].delta,
                    !.recommendations =
                        IF Rules[i].confidence = "Low" THEN @
                        ELSE Append(@, Rules[i].recommendation)]
    ELSE [st EXCEPT !.evaluated = Append(@, i)]

\* One `if` statement.  st holds diseases, health_score,
\* data["recommendations"], the conditions evaluated so far, and whether an
\* exception is propagating.
RuleStep(i, st, f) ==
    IF Raises(i, f)
    THEN [st EXCEPT !.evaluated = Append(@, i), !.raised = TRUE]
    ELSE IF Cond(i, f)
    THEN [st EXCEPT !.evaluated = Append(@, i),
                    !.diseases = Append(@, Match(i)),
                    !.health_score = @ - Rules[i].delta,
                    !.recommendations = Append(@, Rules[i].recommendation)]
    ELSE [st EXCEPT !.evaluated = Append(@, i)]

\* NextRule of an if/elif chain: a match skips the remaining conditions
NextRuleElif(i, matched) == IF matched THEN NumRules + 1 ELSE i + 1

\* The statement that follows the i-th `if`: the next `if`, whatever happened.
NextRule(i, matched) == i + 1

RECURSIVE RunRules(_, _, _)
RunRules(i, st, f) ==
    IF i > NumRules \/ st.raised THEN st
    ELSE RunRules(NextRule(i, Matches(i, f)), RuleStep(i, st, f), f)

\* Fallback that adds nothing
FallbackSkipped(st) == st

\* FINAL ASSESSMENT: the fallback entry when nothing matched.
Fallback(st) ==
    IF st.diseases = <<>>
    THEN [st EXCEPT !.diseases = Append(@, Healthy),
                    !.recommendations = Append(@, HealthyRecommendation)]
    ELSE st

\* FinalScore without the max(0, .)
FinalScoreUnclamped(score) == score

FinalScore(score) == Max(0, score)

(***************************************************************************)
(* The frames analysed.  Every scalar takes values on both sides of the    *)
(* thresholds it is compared with.                                         *)
(***************************************************************************)
Hues == {10, 18, 22, 30, 50, 100}

\* saturation mean, value mean, Laplacian blur value
Complexions ==
    { [s |-> 10,  v |-> 80,  blur |-> 30],
      [s |-> 10,  v |-> 80,  blur |-> 100],
      [s |-> 10,  v |-> 190, blur |-> 100],
      [s |-> 32,  v |-> 175, blur |-> 100],
      [s |-> 50,  v |-> 130, blur |-> 100],
      [s |-> 90,  v |-> 102, blur |-> 100],
      [s |-> 110, v |-> 80,  blur |-> 30] }

\* texture statistics and bright-pixel ratio
Surfaces ==
    { [texture |-> [texture_variance |-> 0, edge_density |-> 0,
                    brightness_std |-> 0], white |-> 0],
      [texture |-> [texture_variance |-> 1000, edge_density |-> 13,
                    brightness_std |-> 40], white |-> 20],
      [texture |-> [texture_variance |-> 1300, edge_density |-> 16,
                    brightness_std |-> 40], white |-> 0],
      [texture |-> [texture_variance |-> 700, edge_density |-> 20,
                    brightness_std |-> 0], white |-> 20] }

\* <<height, width>>: the small ones leave some of the crops empty
Dims == {<<1, 10>>, <<2, 10>>, <<3, 10>>, <<10, 10>>, <<10, 1>>}

Flushed == [mean_h |-> 10, mean_s |-> 120, mean_v |-> 190, std_v |-> 20]

Plain == [mean_h |-> 50, mean_s |-> 50, mean_v |-> 100, std_v |-> 20]

RoiStats == {Flushed, Plain}

PixelChoices(d, stats) ==
    {p \in [NonEmptyRegions(d[1], d[2]) -> stats] :
        "under_eyes" \in DOMAIN p => p["under_eyes"] = Plain}

Asymmetries == {5, 30}

DarkEye == [under_eye_size |-> 60, avg_brightness |-> 60, mean_r |-> 60, mean_g |-> 60]

RedEye == [under_eye_size |-> 60, avg_brightness |-> 120, mean_r |-> 150, mean_g |-> 110]

\* an eye at the bottom edge of the frame: dark and red, but its crop is empty
CroppedEye == [under_eye_size |-> 0, avg_brightness |-> 60, mean_r |-> 150, mean_g |-> 60]

EyeLists == {<<>>, <<DarkEye>>, <<RedEye, DarkEye>>, <<CroppedEye>>}

Classifiers ==
    { [raises |-> TRUE,  results |-> <<>>],
      [raises |-> FALSE, results |-> <<>>],
      [raises |-> FALSE, results |-> <<[age |-> "31"]>>],
      [raises |-> FALSE,
       results |-> <<[dominant_emotion |-> "sad", dominant_race |-> "asian",
                      age |-> "31"]>>] }

Frame(d, h, c, u, p, a, e, k) ==
    [height |-> d[1], width |-> d[2],
     hsv |-> [h |-> h, s |-> c.s, v |-> c.v], blur |-> c.blur,
     pixels |-> p, eyes |-> e, texture |-> u.texture,
     white_pixel_ratio |-> u.white, asymmetry |-> a, deepface |-> k]

\* the frames of a run of several calls
SeqFrames ==
    { Frame(<<10, 10>>, h, c, u, p, 5, <<DarkEye>>, k) :
        h \in {30, 50}, c \in {c \in Complexions : c.blur = 30},
        u \in {u \in Surfaces : u.white = 0},
        p \in PixelChoices(<<10, 10>>, {Plain}),
        k \in {k \in Classifiers :
                  k.raises \/ (k.results # <<>>
                                /\ "dominant_emotion" \in DOMAIN k.results[1])} }

\* the value of frame before the first call
NoFrame == <<>>

MaxCalls == 3

(***************************************************************************)
(* analyze_frame                                                           *)
(***************************************************************************)
Report(d, st) ==
    [d EXCEPT !.recommendations = st.recommendations,
              !.diseases = st.diseases,
              !.health_score = FinalScore(st.health_score)]

AnalyzeFrame ==
    /\ pc = "call"
    /\ LET d0      == Classify(DataInit, frame)
           regions == analyze_skin_regions(frame)
           eye_d   == detect_eye_features(frame)
           f       == Features(frame, regions, eye_d, d0.emotion)
           st0     == [diseases |-> <<>>, health_score |-> 100,
                       recommendations |-> d0.recommendations,
                       evaluated |-> <<>>, raised |-> FALSE]
       IN  \E st1 \in {RunRules(1, st0, f)} :
           \E st2 \in {Fallback(st1)} :
           \E report \in {Report(d0, st2)} :
              /\ region_data' = regions
              /\ eye_data' = eye_d
              /\ evaluated' = st1.evaluated
              /\ IF st1.raised
                 THEN /\ pc' = "raise"
                      /\ data' = [d0 EXCEPT !.recommendations = st1.recommendations]
                      /\ diseases' = st1.diseases
                      /\ health_score' = st1.health_score
                      /\ returned' = returned
                 ELSE /\ pc' = "return"
                      /\ data' = report
                      /\ diseases' = st2.diseases
                      /\ health_score' = st2.health_score
                      /\ returned' = Append(returned, <<frame, report>>)
    /\ UNCHANGED frame

\* the caller's first call of analyze_frame, on any frame
FirstCall ==
    /\ pc = "idle"
    /\ \E d \in Dims, h \in Hues, c \in Complexions, u \in Surfaces,
          a \in Asymmetries, e \in EyeLists, k \in Classifiers :
          \E p \in PixelChoices(d, RoiStats) :
             frame' = Frame(d, h, c, u, p, a, e, k)
    /\ pc' = "call"
    /\ UNCHANGED <<region_data, eye_data, data, diseases, health_score,
                   evaluated, returned>>

\* a later call, on another frame or on the same one again
NextCall ==
    /\ pc = "return"
    /\ Len(returned) < MaxCalls
    /\ frame' \in SeqFrames
    /\ pc' = "call"
    /\ UNCHANGED <<region_data, eye_data, data, diseases, health_score,
                   evaluated, returned>>

\* the locals before the first call: nothing recommended, nothing returned
NoData ==
    [emotion |-> None, race |-> None, age |-> None, diseases |-> <<>>,
     health_score |-> 100, recommendations |-> <<>>]

NoCallYet ==
    /\ region_data = <<>>
    /\ eye_data = EyeDataInit
    /\ data = NoData
    /\ diseases = <<>>
    /\ health_score = 100
    /\ evaluated = <<>>
    /\ returned = <<>>

\* one call of analyze_frame, on any frame
Init == frame = NoFrame /\ pc = "idle" /\ NoCallYet

Next == FirstCall \/ AnalyzeFrame

Spec == Init /\ [][Next]_vars

\* up to MaxCalls calls in a row
InitSeq == frame \in SeqFrames /\ pc = "call" /\ NoCallYet

NextSeq == AnalyzeFrame \/ NextCall

SpecSeq == InitSeq /\ [][NextSeq]_vars

(***************************************************************************)
(* Properties                                                              *)
(***************************************************************************)
\* the feature values of the call that has just run
Feat == Features(frame, region_data, eye_data, data.emotion)

\* the rules whose condition is true of the frame
CondSet == {i \in 1..NumRules : Cond(i, Feat)}

DeltaSum(S) == SumSeq([i \in 1..NumRules |-> IF i \in S THEN Rules[i].delta ELSE 0])

\* the matches of the rules in S, in table order
TableOrder(S) ==
    LET idx == SelectSeq([i \in 1..NumRules |-> i], LAMBDA i : i \in S)
    IN  [k \in 1..Len(idx) |-> Match(idx[k])]

DiseaseNames == {data.diseases[k].name : k \in 1..Len(data.diseases)}

RuleNamed(name) == CHOOSE i \in 1..NumRules : Rules[i].name = name

RecommendationOf(name) ==
    IF name = Healthy.name THEN HealthyRecommendation
    ELSE Rules[RuleNamed(name)].recommendation

Confidences == {"Very Low", "Low", "Medium", "High"}

WellFormed(report) ==
    /\ DOMAIN report = {"emotion", "race", "age", "diseases", "health_score",
                        "recommendations"}
    /\ report.diseases # <<>>
    /\ \A k \in 1..Len(report.diseases) :
          /\ DOMAIN report.diseases[k] = {"name", "confidence", "description"}
          /\ report.diseases[k].confidence \in Confidences
    /\ report.health_score \in 0..100
    /\ Len(report.recommendations) = Len(report.diseases)

\* C1: the returned health_score is an integer in [0, 100] and 100 minus it is
\* the sum of the deltas of the rules whose condition is true, capped at 100.
C1_ScoreIsClampedSum ==
    pc = "return" =>
        /\ data.health_score \in 0..100
        /\ 100 - data.health_score = Min(100, DeltaSum(CondSet))

\* a call whose matched deltas sum to more than 100
C1_Witness ==
    pc = "return" /\ DeltaSum(CondSet) > 100 /\ data.health_score = 0

\* C2: when no condition is true, diseases is the single Healthy entry with
\* confidence High, recommendations has one entry and health_score is 100.
C2_NoMatchIsHealthy ==
    (pc = "return" /\ CondSet = {}) =>
        /\ Len(data.diseases) = 1
        /\ data.diseases[1].name = "Healthy"
        /\ data.diseases[1].confidence = "High"
        /\ Len(data.recommendations) = 1
        /\ data.health_score = 100

C2_Witness == pc = "return" /\ CondSet = {}

\* C3: diseases and recommendations have the same length, and the k-th
\* recommendation is that of the rule (or of the fallback) whose match is the
\* k-th entry of diseases.
C3_RecommendationsParallel ==
    pc = "return" =>
        /\ Len(data.diseases) = Len(data.recommendations)
        /\ \A k \in 1..Len(data.diseases) :
              data.recommendations[k] = RecommendationOf(data.diseases[k].name)

\* a call with matches of Low and of other confidence
C3_Witness ==
    /\ pc = "return"
    /\ Len(data.diseases) >= 3
    /\ \E k \in 1..Len(data.diseases) : data.diseases[k].confidence = "Low"
    /\ \E k \in 1..Len(data.diseases) : data.diseases[k].confidence = "High"

\* C4: the 25 conditions are evaluated once each, in table order, whatever
\* matched before, and the matches are those of the true conditions in table
\* order.
C4_AllRulesInTableOrder ==
    pc = "return" =>
        /\ evaluated = [i \in 1..NumRules |-> i]
        /\ CondSet # {} => data.diseases = TableOrder(CondSet)

\* a call where a match is followed by one of a larger delta and a higher
\* confidence would come later
C4_Witness ==
    /\ pc = "return"
    /\ \E k \in 1..(Len(data.diseases) - 1) :
          /\ Rules[RuleNamed(data.diseases[k].name)].delta
                < Rules[RuleNamed(data.diseases[k + 1].name)].delta
          /\ data.diseases[k].confidence = "Low"
          /\ data.diseases[k + 1].confidence = "Medium"

\* C5 (as claimed): after a failure of the classifier the report holds the
\* Unknown sentinel in emotion, race and age, and the pass is complete.
C5_FailureGivesUnknown ==
    (pc \in {"return", "raise"} /\ ClassifierFails(frame)) =>
        /\ pc = "return"
        /\ data.emotion = "Unknown"
        /\ data.race = "Unknown"
        /\ data.age = "Unknown"
        /\ evaluated = [i \in 1..NumRules |-> i]
        /\ WellFormed(data)

\* the rules that read each region
ReadersOf(region) ==
    CASE region = "forehead" -> {"Melasma / Hyperpigmentation"}
      [] region = "cheeks"   -> {"Lupus (Butterfly Rash Indicator)",
                                 "Cushing's Syndrome (Moon Face)"}
      [] region = "chin"     -> {"Hormonal Acne", "Perioral Dermatitis"}

\* C6: no call raises; a rule that reads an absent region does not match,
\* Chronic Stress does not match an unknown emotion, and the report is well
\* formed, the fallback report when nothing matches.
C6_MissingDataNeverFaults ==
    /\ pc # "raise"
    /\ pc = "return" =>
          /\ \A region \in {"forehead", "cheeks", "chin"} \ DOMAIN region_data :
                DiseaseNames \cap ReadersOf(region) = {}
          /\ data.emotion \in {None, "Unknown"} =>
                "Chronic Stress / Anxiety" \notin DiseaseNames
          /\ WellFormed(data)
          /\ CondSet = {} => data.diseases = <<Healthy>>

\* a call with no region at all and no classifier output that ends in the
\* fallback report
C6_Witness ==
    /\ pc = "return"
    /\ DOMAIN region_data = {}
    /\ data.emotion = None
    /\ data.diseases = <<Healthy>>

\* sat=10, val=80, sharpness=30, no regions, no eye flags, texture zero,
\* classifier unknown, hue and asymmetry in no rule's range
Scenario3 ==
    /\ frame.hsv = [h |-> 50, s |-> 10, v |-> 80]
    /\ frame.blur = 30
    /\ region_data = <<>>
    /\ eye_data = EyeDataInit
    /\ frame.texture = [texture_variance |-> 0, edge_density |-> 0,
                        brightness_std |-> 0]
    /\ frame.white_pixel_ratio = 0
    /\ frame.asymmetry = 5
    /\ ClassifierFails(frame)

\* C7 (as claimed): that frame matches Malnutrition only, health_score 70.
C7_MalnutritionOnly ==
    (pc = "return" /\ Scenario3) =>
        /\ Len(data.diseases) = 1
        /\ data.diseases[1].name = "Malnutrition"
        /\ data.health_score = 70

\* C7 (amended): that frame matches Dehydration and Malnutrition, in this
\* order, and health_score is 60.
C7_DehydrationAndMalnutrition ==
    (pc = "return" /\ Scenario3) =>
        /\ Len(data.diseases) = 2
        /\ data.diseases[1].name = "Dehydration"
        /\ data.diseases[2].name = "Malnutrition"
        /\ data.health_score = 60

C7_Witness == pc = "return" /\ Scenario3

\* C8: two calls on the same frame return the same report, whatever was
\* analysed in between.
C8_SameFrameSameReport ==
    \A i, j \in 1..Len(returned) :
        returned[i][1] = returned[j][1] => returned[i][2] = returned[j][2]

\* a frame analysed, then another one, then the first again
C8_Witness ==
    /\ Len(returned) >= 3
    /\ returned[1][1] = returned[3][1]
    /\ returned[2][1] # returned[1][1]
    /\ returned[2][2] # returned[1][2]

PuffinessRules == {"Hypothyroidism (Possible)", "Kidney Disease (Possible)"}

EyeFlagValues == [dark_circles : BOOLEAN, puffiness : BOOLEAN, redness : BOOLEAN]

\* C10: Psoriasis implies Sun Damage and Kidney Disease implies
\* Hypothyroidism, Vitamin D Deficiency and Anemia, both for the conditions
\* (with any eye flags) and for the matches reported; a report with Psoriasis
\* has at least two matches and a health_score of at most 67.
C10_Subsumption ==
    pc = "return" =>
        /\ \A eye \in EyeFlagValues :
              LET f == [Feat EXCEPT !.eye_data = eye]
              IN  /\ Psoriasis(f) => SunDamage(f)
                  /\ KidneyDisease(f) =>
                        Hypothyroidism(f) /\ VitaminDDeficiency(f) /\ Anemia(f)
        /\ "Psoriasis" \in DiseaseNames =>
              /\ "Sun Damage / Photoaging" \in DiseaseNames
              /\ Len(data.diseases) >= 2
              /\ data.health_score <= 67
        /\ "Kidney Disease (Possible)" \in DiseaseNames =>
              /\ {"Hypothyroidism (Possible)", "Vitamin D Deficiency", "Anemia"}
                    \subseteq DiseaseNames
              /\ Len(data.diseases) >= 4

\* a report with Psoriasis, of a frame whose colours satisfy Kidney Disease
\* once puffiness is set
C10_Witness ==
    /\ pc = "return"
    /\ "Psoriasis" \in DiseaseNames
    /\ KidneyDisease([Feat EXCEPT !.eye_data.puffiness = TRUE])

====
